---------------------------- MODULE Spec2Model ----------------------------
(***************************************************************************)
(* Model of the Marstek CT meter client                                    *)
(* (custom_components/marstek_ct/api.py): construction of the query frame  *)
(* by MarstekCtApi._build_payload, decoding of a response by               *)
(* MarstekCtApi._decode_response and the bounded retry loop of             *)
(* MarstekCtApi.fetch_data; of the polling wrapper that calls it           *)
(* (custom_components/marstek_ct/__init__.py): async_setup_entry,          *)
(* _apply_backoff and async_update_data; and of the config flow that       *)
(* creates the entry (custom_components/marstek_ct/config_flow.py):        *)
(* validate_input and ConfigFlow.async_step_user.                          *)
(*                                                                         *)
(* Text is modelled as the sequence of its code points (a Python str) or   *)
(* of its byte values (a Python bytes); messages shown to the caller are   *)
(* TLA+ strings.  Times are in milliseconds.                               *)
(***************************************************************************)
EXTENDS Integers, Sequences, FiniteSets, TLC

VARIABLES
    self,                   \* the attributes of the MarstekCtApi instance
    pc,                     \* where the program is (see PcValues)
    message_bytes,          \* _build_payload: local message_bytes
    base_size_without_len,  \* _build_payload: local base_size_without_len
    length_str,             \* _build_payload: local length_str
    iters,                  \* _build_payload: passes of the while loop begun
    attempt,                \* fetch_data: the loop variable
    last_error,             \* fetch_data: local last_error
    response,               \* fetch_data: local response
    exc,                    \* fetch_data: the exception raised in the try block
    result,                 \* what the last finished fetch_data returned
    openSocks,              \* ids of the sockets that are open
    callSocks,              \* ids of the sockets the current call created
    nextSock,               \* id the next created socket gets
    sent,                   \* datagrams the current call sent, in order
    outcomes,               \* how each attempt of the current call ended
    delays,                 \* time.sleep calls the current call made
    slept,                  \* sum of the durations of those sleeps (ms)
    calls,                  \* fetch_data calls begun on this client
    coordinator,            \* async_setup_entry: the DataUpdateCoordinator
    consecutive_failures,   \* async_setup_entry: local consecutive_failures
    poll,                   \* where the polling wrapper is (see PollValues)
    polls,                  \* async_update_data calls begun
    update_result,          \* what the last async_update_data returned
    flow,                   \* where the config flow is (see FlowValues)
    user_input,             \* async_step_user: the submitted form
    entry,                  \* the data of the config entry (entry.data)
    validated,              \* the frame of the client validate_input tested
    start_delay             \* ms the executor took to start the polled fetch_data

vars == <<self, pc, message_bytes, base_size_without_len, length_str, iters,
          attempt, last_error, response, exc, result, openSocks, callSocks,
          nextSock, sent, outcomes, delays, slept, calls, coordinator,
          consecutive_failures, poll, polls, update_result, flow, user_input,
          entry, validated, start_delay>>

buildVars == <<message_bytes, base_size_without_len, length_str, iters>>

fetchVars == <<attempt, last_error, response, exc, result, openSocks, callSocks,
               nextSock, sent, outcomes, delays, slept, calls>>

pollVars == <<coordinator, consecutive_failures, poll, polls, update_result>>

flowVars == <<flow, user_input, entry, validated>>

---------------------------------------------------------------------------
(* Bounds of the model.                                                    *)

\* fetch_data calls made on one client
MaxCalls == 2
\* most segments of a response of the decoding specification
MaxSegments == 26
\* async_update_data calls of the polling specification
MaxPolls == 5
\* longest device_type of the frame-building specification
MaxDevLen == 100
\* length of the long ct_type of the frame-building specification
LongLen == 900

---------------------------------------------------------------------------
(* Bytes and text.                                                         *)

SOH == 1
STX == 2
ETX == 3

\* "|"
SEPARATOR == <<124>>

\* "0"
Zero == <<48>>

\* str(n) for an int n >= 0, as bytes: the decimal digits, most significant first
RECURSIVE Str(_)
Str(n) == IF n < 10 THEN <<48 + n>> ELSE Str(n \div 10) \o <<48 + (n % 10)>>

\* bit k of the byte v
BitAt(v, k) == (v \div (2 ^ k)) % 2

\* a checksum that leaves out the first byte (SOH)
XorAll_SkipSOH(bytes) ==
    LET Parity(k) == Cardinality({i \in 2..Len(bytes) : BitAt(bytes[i], k) = 1}) % 2
    IN  Parity(0) + 2 * Parity(1) + 4 * Parity(2) + 8 * Parity(3)
            + 16 * Parity(4) + 32 * Parity(5) + 64 * Parity(6) + 128 * Parity(7)

\* xor_val after "xor_val = 0; for b in payload: xor_val ^= b": bit k of the
\* exclusive or of the bytes is the parity of the bytes that have bit k set
XorAll(bytes) ==
    LET Parity(k) == Cardinality({i \in 1..Len(bytes) : BitAt(bytes[i], k) = 1}) % 2
    IN  Parity(0) + 2 * Parity(1) + 4 * Parity(2) + 8 * Parity(3)
            + 16 * Parity(4) + 32 * Parity(5) + 64 * Parity(6) + 128 * Parity(7)

\* one lowercase hexadecimal digit
HexDigit(d) == IF d < 10 THEN 48 + d ELSE 97 + (d - 10)

\* f"{v:02x}".encode("ascii") for 0 <= v <= 255
Hex2(v) == <<HexDigit(v \div 16), HexDigit(v % 16)>>

\* a codec that accepts every code point below 256 (latin-1)
IsAscii_Latin1(s) == \A i \in 1..Len(s) : s[i] < 256

\* whether s.encode("ascii") / b.decode("ascii") succeeds
IsAscii(s) == \A i \in 1..Len(s) : s[i] < 128

\* n copies of the character c
Run(c, n) == [i \in 1..n |-> c]

\* F(x) with x evaluated once, for a value that F uses many times (a local
\* variable of the code)
With(x, F(_)) == CHOOSE r \in {F(v) : v \in {x}} : TRUE

---------------------------------------------------------------------------
(* MarstekCtApi._build_payload as functions of its locals.                 *)

\* the fields in the order of the constructor's parameters
MessageFields_ParamOrder(obj) ==
    <<obj.device_type, obj.battery_mac, obj.ct_mac, obj.ct_type, Zero, Zero>>

\* message_fields
MessageFields(obj) ==
    <<obj.device_type, obj.battery_mac, obj.ct_type, obj.ct_mac, Zero, Zero>>

\* SEPARATOR + SEPARATOR.join(fields)
RECURSIVE JoinUpTo(_, _)
JoinUpTo(fields, n) ==
    IF n = 0 THEN <<>> ELSE JoinUpTo(fields, n - 1) \o SEPARATOR \o fields[n]

MessageText(obj) == JoinUpTo(MessageFields(obj), Len(MessageFields(obj)))

\* a base size that leaves out the two checksum digits
BaseSize_NoChecksum(msg) == 1 + 1 + Len(msg) + 1

\* base_size_without_len: SOH + STX + msg + ETX + xor(2)
BaseSize(msg) == 1 + 1 + Len(msg) + 1 + 2

\* the first length_str, before the loop
FirstLengthStr(base) == Str(base + Len(Str(base)))

\* new_length_str of one pass of the loop
NewLengthStr(base, ls) == Str(base + Len(ls))

\* an exit test that stops the loop after its first pass
LoopStable_FirstPass(base, ls) == TRUE

\* the loop's exit test
LoopStable(base, ls) == NewLengthStr(base, ls) = ls

\* payload up to and including ETX
FrameBody(ls, msg) == <<SOH, STX>> \o ls \o msg \o <<ETX>>

\* the returned bytes: the body and its checksum digits
AssemblePayload(ls, msg) ==
    With(FrameBody(ls, msg), LAMBDA payload : payload \o Hex2(XorAll(payload)))

---------------------------------------------------------------------------
(* MarstekCtApi._decode_response.                                          *)

\* a tuple of labels without "x_dchrg_power"
RESPONSE_LABELS_23 ==
    << "meter_dev_type", "meter_mac_code", "hhm_dev_type", "hhm_mac_code",
       "A_phase_power", "B_phase_power", "C_phase_power", "total_power",
       "A_chrg_nb", "B_chrg_nb", "C_chrg_nb", "ABC_chrg_nb",
       "wifi_rssi", "info_idx",
       "x_chrg_power", "A_chrg_power", "B_chrg_power", "C_chrg_power",
       "ABC_chrg_power",
       "A_dchrg_power", "B_dchrg_power", "C_dchrg_power",
       "ABC_dchrg_power" >>

RESPONSE_LABELS ==
    << "meter_dev_type", "meter_mac_code", "hhm_dev_type", "hhm_mac_code",
       "A_phase_power", "B_phase_power", "C_phase_power", "total_power",
       "A_chrg_nb", "B_chrg_nb", "C_chrg_nb", "ABC_chrg_nb",
       "wifi_rssi", "info_idx",
       "x_chrg_power", "A_chrg_power", "B_chrg_power", "C_chrg_power",
       "ABC_chrg_power",
       "x_dchrg_power", "A_dchrg_power", "B_dchrg_power", "C_dchrg_power",
       "ABC_dchrg_power" >>

\* Python values of a record: None, an int, a str
PyNone == [t |-> "none"]
PyInt(n) == [t |-> "int", v |-> n]
PyStr(s) == [t |-> "str", v |-> s]

\* bytes.rindex(b): the position of the last b in s, 0 when there is none
FirstIndex_Last(s, b) ==
    IF \E i \in 1..Len(s) : s[i] = b
    THEN CHOOSE i \in 1..Len(s) : s[i] = b /\ \A j \in (i + 1)..Len(s) : s[j] # b
    ELSE 0

\* bytes.index(b): the 1-based position of the first b in s, 0 when there is none
FirstIndex(s, b) ==
    IF \E i \in 1..Len(s) : s[i] = b
    THEN CHOOSE i \in 1..Len(s) : s[i] = b /\ \A j \in 1..(i - 1) : s[j] # b
    ELSE 0

HexChars ==
    <<"0", "1", "2", "3", "4", "5", "6", "7", "8", "9", "a", "b", "c", "d", "e", "f">>

\* str() of the UnicodeDecodeError of msg_bytes.decode("ascii")
AsciiErrorText(msg) ==
    LET p == CHOOSE i \in 1..Len(msg) :
                 msg[i] >= 128 /\ \A j \in 1..(i - 1) : msg[j] < 128
    IN  "'ascii' codec can't decode byte 0x" \o HexChars[(msg[p] \div 16) + 1]
            \o HexChars[(msg[p] % 16) + 1] \o " in position " \o ToString(p - 1)
            \o ": ordinal not in range(128)"

\* an extraction that looks for "|" in the whole datagram
ExtractMessageAscii_PipeAnywhere(data) ==
    With(FirstIndex(data, ETX), LAMBDA etx_pos :
        IF etx_pos = 0
        THEN [ok |-> FALSE, text |-> "ETX not found in response"]
        ELSE With(FirstIndex(data, SEPARATOR[1]), LAMBDA pipe_pos :
                IF pipe_pos = 0
                THEN [ok |-> FALSE, text |-> "No '|' separator found in response"]
                ELSE With(SubSeq(data, pipe_pos, etx_pos - 1), LAMBDA msg_bytes :
                    IF ~IsAscii(msg_bytes)
                    THEN [ok |-> FALSE, text |-> AsciiErrorText(msg_bytes)]
                    ELSE [ok |-> TRUE, text |-> msg_bytes])))

\* _extract_message_ascii: [ok |-> TRUE, text |-> the message] or
\* [ok |-> FALSE, text |-> str() of the exception raised]
ExtractMessageAscii(data) ==
    With(FirstIndex(data, ETX), LAMBDA etx_pos :
        IF etx_pos = 0
        THEN [ok |-> FALSE, text |-> "ETX not found in response"]
        ELSE With(SubSeq(data, 1, etx_pos - 1), LAMBDA frame :
            With(FirstIndex(frame, SEPARATOR[1]), LAMBDA pipe_pos :
                IF pipe_pos = 0
                THEN [ok |-> FALSE, text |-> "No '|' separator found in response"]
                ELSE With(SubSeq(frame, pipe_pos, Len(frame)), LAMBDA msg_bytes :
                    IF ~IsAscii(msg_bytes)
                    THEN [ok |-> FALSE, text |-> AsciiErrorText(msg_bytes)]
                    ELSE [ok |-> TRUE, text |-> msg_bytes]))))

\* the positions of "|" in s
PipePositions(s) == {i \in 1..Len(s) : s[i] = SEPARATOR[1]}

\* the position of the j-th "|" of s
NthPipe(s, j) ==
    CHOOSE p \in PipePositions(s) : Cardinality({q \in PipePositions(s) : q < p}) = j - 1

\* str.split("|"): the segments before, between and after the separators
Split(s) ==
    LET n == Cardinality(PipePositions(s))
    IN  [j \in 1..(n + 1) |->
            SubSeq(s, IF j = 1 THEN 1 ELSE NthPipe(s, j - 1) + 1,
                      IF j = n + 1 THEN Len(s) ELSE NthPipe(s, j) - 1)]

\* the characters int() strips from both ends of an ASCII str (C isspace)
IsSpace(c) == c \in {9, 10, 11, 12, 13, 32}

IsDigit(c) == c \in 48..57

RECURSIVE Strip(_)
Strip(s) ==
    IF s = <<>> THEN s
    ELSE IF IsSpace(s[1]) THEN Strip(Tail(s))
    ELSE IF IsSpace(s[Len(s)]) THEN Strip(SubSeq(s, 1, Len(s) - 1))
    ELSE s

\* digits with single underscores between them, as int(x, 10) accepts
IsDigitGroup(s) ==
    /\ s # <<>>
    /\ IsDigit(s[1])
    /\ IsDigit(s[Len(s)])
    /\ \A i \in 1..Len(s) : IsDigit(s[i]) \/ s[i] = 95
    /\ \A i \in 1..(Len(s) - 1) : ~(s[i] = 95 /\ s[i + 1] = 95)

\* the text after an optional sign
Unsigned(s) == IF s # <<>> /\ s[1] \in {43, 45} THEN Tail(s) ELSE s

\* a parse that accepts an optional sign and decimal digits only
IntParses_SignDigits(val) ==
    /\ Unsigned(val) # <<>>
    /\ \A i \in 1..Len(Unsigned(val)) : IsDigit(Unsigned(val)[i])

\* whether int(val) returns, rather than raising ValueError
IntParses(val) == IsDigitGroup(Unsigned(Strip(val)))

RECURSIVE DigitsValue(_, _)
DigitsValue(s, n) ==
    IF n = 0 THEN 0
    ELSE IF s[n] = 95 THEN DigitsValue(s, n - 1)
    ELSE 10 * DigitsValue(s, n - 1) + (s[n] - 48)

\* int(val) where it returns (the inputs of the model stay below 2^31)
IntValue(val) ==
    LET body == Strip(val)
        mag == DigitsValue(Unsigned(body), Len(Unsigned(body)))
    IN  IF body[1] = 45 THEN 0 - mag ELSE mag

\* the value stored for one segment of the response
FieldValue(val) ==
    IF val = <<>> THEN PyNone
    ELSE IF IntParses(val) THEN PyInt(IntValue(val))
    ELSE PyStr(val)

\* parsed after the zip loop alone
ParseFields_NoPadding(fields) ==
    LET n == Len(RESPONSE_LABELS)
        zipped == {i \in 1..n : i <= Len(fields)}
    IN  [label \in {RESPONSE_LABELS[i] : i \in zipped} |->
            LET i == CHOOSE j \in 1..n : RESPONSE_LABELS[j] = label
            IN  FieldValue(fields[i])]

\* parsed after the zip loop and the padding loop
ParseFields(fields) ==
    LET n == Len(RESPONSE_LABELS)
        zipped == {i \in 1..n : i <= Len(fields)}
        padded == IF Len(fields) < n THEN (Len(fields) + 1)..n ELSE {}
    IN  [label \in {RESPONSE_LABELS[i] : i \in zipped \cup padded} |->
            LET i == CHOOSE j \in 1..n : RESPONSE_LABELS[j] = label
            IN  IF i \in zipped THEN FieldValue(fields[i]) ELSE PyNone]

\* parsed.get(key)
DictGet(parsed, key) == IF key \in DOMAIN parsed THEN parsed[key] ELSE PyNone

\* a derivation with the operands exchanged: charge minus discharge
DeriveSignedBatteryPower_ChargeMinusDischarge(parsed) ==
    LET charge_power == DictGet(parsed, "ABC_chrg_power")
        discharge_power == DictGet(parsed, "ABC_dchrg_power")
        derived == IF charge_power.t # "int" \/ discharge_power.t # "int"
                   THEN PyNone
                   ELSE PyInt(charge_power.v - discharge_power.v)
    IN  [key \in DOMAIN parsed \cup {"battery_power"} |->
            IF key = "battery_power" THEN derived ELSE parsed[key]]

\* _derive_signed_battery_power: parsed with battery_power set
DeriveSignedBatteryPower(parsed) ==
    LET charge_power == DictGet(parsed, "ABC_chrg_power")
        discharge_power == DictGet(parsed, "ABC_dchrg_power")
        derived == IF charge_power.t # "int" \/ discharge_power.t # "int"
                   THEN PyNone
                   ELSE PyInt(discharge_power.v - charge_power.v)
    IN  [key \in DOMAIN parsed \cup {"battery_power"} |->
            IF key = "battery_power" THEN derived ELSE parsed[key]]

\* the dict _decode_response returns
DecodeResponse(data) ==
    With(ExtractMessageAscii(data), LAMBDA message :
        IF ~message.ok
        THEN [error |-> "Invalid response format: " \o message.text]
        ELSE With(Tail(Split(message.text)), LAMBDA fields :
                With(ParseFields(fields), LAMBDA parsed :
                    DeriveSignedBatteryPower(parsed))))

\* the caller's test for the error shape: "error" in data
IsErrorRecord(rec) == "error" \in DOMAIN rec

---------------------------------------------------------------------------
(* MarstekCtApi.__init__: the attributes set before the frame is built.    *)

Port == 12345
TimeoutMs == 3000
Retries == 3
RetryDelayMs == 300

\* the size recvfrom is given
RecvBufSize == 2048

\* Python None as the value of last_error
None == "None"

\* the object at line 56, with _payload not yet assigned
NewClient(args) ==
    [host |-> args.host, port |-> Port, device_type |-> args.device_type,
     battery_mac |-> args.battery_mac, ct_mac |-> args.ct_mac,
     ct_type |-> args.ct_type, timeout |-> TimeoutMs, retries |-> Retries,
     retry_delay |-> RetryDelayMs, payload |-> <<>>]

\* "AABBCCDDEEFF" and "112233445566"
BatteryMac == <<65, 65, 66, 66, 67, 67, 68, 68, 69, 69, 70, 70>>
CtMac == <<49, 49, 50, 50, 51, 51, 52, 52, 53, 53, 54, 54>>

\* the same addresses written "AA:BB:CC:DD:EE:FF" and "11:22:33:44:55:66"
BatteryMacColons == <<65, 65, 58, 66, 66, 58, 67, 67, 58, 68, 68, 58, 69, 69, 58, 70, 70>>
CtMacColons == <<49, 49, 58, 50, 50, 58, 51, 51, 58, 52, 52, 58, 53, 53, 58, 54, 54>>

\* "HMG-50", "HME-4" and the non-ASCII "HMG-5é"
DevHmg50 == <<72, 77, 71, 45, 53, 48>>
CtHme4 == <<72, 77, 69, 45, 52>>
DevNonAscii == <<72, 77, 71, 45, 53, 233>>

\* non-ASCII addresses and CT type: "AABBCCDDEEFé", "11223344556€", "HMÉ-4"
BatteryMacNonAscii == <<65, 65, 66, 66, 67, 67, 68, 68, 69, 69, 70, 233>>
CtMacNonAscii == <<49, 49, 50, 50, 51, 51, 52, 52, 53, 53, 54, 8364>>
CtTypeNonAscii == <<72, 77, 201, 45, 52>>

\* a device_type whose frame needs a second pass of the length loop
DevLong == Run(65, 57)

\* a host sendto accepts, and one it rejects with TypeError ("meter", a NUL
\* character, "lan")
GoodHost == "192.0.2.10"
BadHost == "meter<NUL>lan"

\* constructor arguments of the clients that fetch
Identities ==
    { [host |-> h, device_type |-> d, battery_mac |-> BatteryMac,
       ct_mac |-> CtMac, ct_type |-> CtHme4] :
          h \in {GoodHost, BadHost}, d \in {DevHmg50, DevNonAscii, DevLong} }
    \cup
    { [host |-> GoodHost, device_type |-> DevHmg50, battery_mac |-> a[1],
       ct_mac |-> a[2], ct_type |-> a[3]] :
          a \in {<<BatteryMacNonAscii, CtMac, CtHme4>>,
                 <<BatteryMac, CtMacNonAscii, CtHme4>>,
                 <<BatteryMac, CtMac, CtTypeNonAscii>>} }

\* constructor arguments of the client of the decoding specification
DecodeIdentities ==
    { [host |-> GoodHost, device_type |-> DevLong, battery_mac |-> BatteryMac,
       ct_mac |-> CtMac, ct_type |-> CtHme4] }

\* constructor arguments of the frame-building specification: messages on
\* both sides of the lengths at which the length field gains a digit
\* and the identity "HMG-50", "HME-4" with its addresses in both spellings
BuildIdentities ==
    { [host |-> GoodHost, device_type |-> Run(65, n),
       battery_mac |-> BatteryMac, ct_mac |-> CtMac, ct_type |-> c] :
          n \in 0..MaxDevLen, c \in {CtHme4, Run(66, LongLen)} }
    \cup
    { [host |-> GoodHost, device_type |-> DevHmg50,
       battery_mac |-> m[1], ct_mac |-> m[2], ct_type |-> CtHme4] :
          m \in {<<BatteryMac, CtMac>>, <<BatteryMacColons, CtMacColons>>} }

---------------------------------------------------------------------------
(* What the network can do to one attempt.                                 *)

\* a response with all 24 fields ("...|120|5|15|25|35|50" ETX "5a")
FullResponse ==
    <<1, 2, 49, 51, 49, 124, 72, 77, 69, 45, 52, 124, 65, 49, 66, 50,
      67, 51, 68, 52, 69, 53, 70, 54, 124, 72, 77, 71, 45, 53, 48, 124,
      65, 65, 66, 66, 67, 67, 68, 68, 69, 69, 70, 70, 124, 49, 48, 48,
      124, 50, 48, 48, 124, 51, 48, 48, 124, 54, 48, 48, 124, 49, 124,
      50, 124, 51, 124, 54, 124, 45, 53, 53, 124, 48, 124, 49, 48, 124,
      50, 48, 124, 51, 48, 124, 52, 48, 124, 49, 50, 48, 124, 53, 124,
      49, 53, 124, 50, 53, 124, 51, 53, 124, 53, 48, 3, 53, 97>>

\* "|HME-4|A1B2C3D4E5F6|HMG-50||42": five segments, the fourth empty
ShortResponse ==
    <<1, 2, 50, 55, 124, 72, 77, 69, 45, 52, 124, 65, 49, 66, 50, 67,
      51, 68, 52, 69, 53, 70, 54, 124, 72, 77, 71, 45, 53, 48, 124,
      124, 52, 50, 3, 55, 99>>

\* no ETX byte
NoEtxResponse == <<1, 2, 124, 72, 77, 69, 45, 52, 124, 49, 124, 50>>

\* "|" only after the first ETX
NoPipeResponse == <<1, 2, 49, 50, 72, 77, 69, 45, 52, 3, 124, 55, 124, 56>>

\* a byte >= 0x80 between "|" and ETX
NonAsciiResponse == <<1, 2, 124, 72, 77, 69, 45, 52, 124, 233, 124, 55, 3, 48, 48>>

Datagrams ==
    {FullResponse, ShortResponse, NoEtxResponse, NoPipeResponse, NonAsciiResponse}

\* The responses of the decoding specification: a header, a "|"-joined list
\* of segments, ETX and a trailer.

\* the segments of FullResponse, and "25", "26", ... after them
SampleField(i) ==
    IF i > 24 THEN Str(i)
    ELSE << <<72, 77, 69, 45, 52>>,
            <<65, 49, 66, 50, 67, 51, 68, 52, 69, 53, 70, 54>>,
            <<72, 77, 71, 45, 53, 48>>,
            <<65, 65, 66, 66, 67, 67, 68, 68, 69, 69, 70, 70>>,
            <<49, 48, 48>>, <<50, 48, 48>>, <<51, 48, 48>>, <<54, 48, 48>>,
            <<49>>, <<50>>, <<51>>, <<54>>, <<45, 53, 53>>, <<48>>,
            <<49, 48>>, <<50, 48>>, <<51, 48>>, <<52, 48>>, <<49, 50, 48>>,
            <<53>>, <<49, 53>>, <<50, 53>>, <<51, 53>>, <<53, 48>> >>[i]

\* segments a device could put in one position:
\*   "", "42", "-7", "+5", "007", "-0", " 42", "42" LF, TAB "9", "4_2",
\*   "_4", "4_", "4__2", "abc", "-", "+", "1.5", "0x1F", "--5", "+-5",
\*   "4 2", " ", "12e3", FS "5", "- 5"
Tokens ==
    { <<>>, <<52, 50>>, <<45, 55>>, <<43, 53>>, <<48, 48, 55>>, <<45, 48>>,
      <<32, 52, 50>>, <<52, 50, 10>>, <<9, 57>>, <<52, 95, 50>>,
      <<95, 52>>, <<52, 95>>, <<52, 95, 95, 50>>, <<97, 98, 99>>, <<45>>, <<43>>,
      <<49, 46, 53>>, <<48, 120, 49, 70>>, <<45, 45, 53>>, <<43, 45, 53>>,
      <<52, 32, 50>>, <<32>>, <<49, 50, 101, 51>>, <<28, 53>>, <<45, 32, 53>> }

\* the 24 sample segments with one token in place of one of them
TokenLists ==
    { [i \in 1..24 |-> IF i = p THEN tok ELSE SampleField(i)] :
          p \in 1..24, tok \in Tokens }

\* the sample segments with other charge (19) and discharge (24) segments:
\* "", "120", "abc", "-7" and "", "50", "xyz", "+5"
BatteryLists ==
    { [i \in 1..24 |-> IF i = 19 THEN c ELSE IF i = 24 THEN d ELSE SampleField(i)] :
          c \in {<<>>, <<49, 50, 48>>, <<97, 98, 99>>, <<45, 55>>},
          d \in {<<>>, <<53, 48>>, <<120, 121, 122>>, <<43, 53>>} }

\* the first n sample segments, the fourth empty or not
PrefixLists ==
    { [i \in 1..n |-> IF i = 4 /\ e THEN <<>> ELSE SampleField(i)] :
          n \in 1..MaxSegments, e \in BOOLEAN }

\* header and trailer: those of the device, none, and bytes of every kind
\* (non-ASCII in the header; ETX, "|" and non-ASCII in the trailer)
Framings ==
    { << <<1, 2, 49, 51, 49>>, <<53, 97>> >>,
      << <<>>, <<>> >>,
      << <<200, 1, 2>>, <<3, 124, 55, 124, 200, 3>> >> }

\* the datagram with these segments in this framing
Wire(framing, fields) ==
    framing[1] \o JoinUpTo(fields, Len(fields)) \o <<ETX>> \o framing[2]

\* responses that do not decode, and the shortest that do:
\* no bytes, only ETX, "|" ETX, ETX before the first "|", SOH STX "|" ETX
MalformedInputs ==
    { NoEtxResponse, NoPipeResponse, NonAsciiResponse, <<>>, <<3>>, <<124, 3>>,
      <<1, 2, 3, 124, 55, 3>>, <<1, 2, 124, 3>>,
      <<124, 55, 124, 200, 3>>, <<124, 200>> }

DecodeInputs ==
    { Wire(f, fields) : f \in Framings, fields \in PrefixLists \cup BatteryLists }
    \cup { Wire(<<<<1, 2, 49, 51, 49>>, <<53, 97>>>>, fields) : fields \in TokenLists }
    \cup MalformedInputs

\* the exceptions each call of the try block can raise: class and str(e)
SocketErrors == {[cls |-> "OSError", text |-> "[Errno 24] Too many open files"]}

SendErrors(host) ==
    IF host = BadHost
    THEN {[cls |-> "TypeError", text |-> "host name must not contain null character"]}
    ELSE {[cls |-> "OSError", text |-> "[Errno 101] Network is unreachable"]}

RecvErrors ==
    {[cls |-> "timeout", text |-> "timed out"],
     [cls |-> "OSError", text |-> "[Errno 111] Connection refused"]}

\* issubclass(c, d) among the classes above (socket.timeout is an OSError)
IsSubclass(c, d) ==
    \/ c = d
    \/ d = "Exception"
    \/ c = "timeout" /\ d = "OSError"

\* no exception is in flight
NoException == [cls |-> "", text |-> ""]

---------------------------------------------------------------------------
(* The program.                                                            *)

PcValues ==
    {"build", "len_loop", "raised", "idle", "next", "socket", "sendto",
     "recvfrom", "decode", "except", "handled", "sleep", "done", "propagated"}

\* no fetch_data has returned yet
NoResult == [pending |-> TRUE]

FetchInit ==
    /\ attempt = 0
    /\ last_error = None
    /\ response = <<>>
    /\ exc = NoException
    /\ result = NoResult
    /\ openSocks = {}
    /\ callSocks = {}
    /\ nextSock = 1
    /\ sent = <<>>
    /\ outcomes = <<>>
    /\ delays = 0
    /\ slept = 0
    /\ calls = 0

BuildVarsInit ==
    /\ message_bytes = <<>>
    /\ base_size_without_len = 0
    /\ length_str = <<>>
    /\ iters = 0

\* Python None as the value of coordinator
NoCoordinator == [none |-> TRUE]

\* async_setup_entry has not yet reached line 35
PollInit ==
    /\ coordinator = NoCoordinator
    /\ consecutive_failures = 0
    /\ poll = "setup"
    /\ polls = 0
    /\ update_result = NoResult

\* no form has been submitted
NoInput == [none |-> TRUE]

\* no config entry has been created
NoEntry == [none |-> TRUE]

\* async_setup_entry is constructing its client from entry.data: __init__
\* has set the attributes and is about to call _build_payload
InitWith(ids) ==
    /\ \E args \in ids : self = NewClient(args) /\ entry = args
    /\ pc = "build"
    /\ BuildVarsInit
    /\ FetchInit
    /\ PollInit
    /\ flow = "setup"
    /\ user_input = NoInput
    /\ validated = <<>>
    /\ start_delay = 0

Init == InitWith(Identities)

BuildInit == InitWith(BuildIdentities)

\* _build_payload up to the loop: the message is encoded, or the encoding
\* error leaves __init__
BuildStart ==
    /\ pc = "build"
    /\ IF IsAscii(MessageText(self))
       THEN /\ message_bytes' = MessageText(self)
            /\ base_size_without_len' = BaseSize(MessageText(self))
            /\ length_str' = FirstLengthStr(BaseSize(MessageText(self)))
            /\ pc' = "len_loop"
       ELSE /\ pc' = "raised"
            /\ UNCHANGED <<message_bytes, base_size_without_len, length_str>>
    /\ UNCHANGED <<self, iters, fetchVars, pollVars, flowVars, start_delay>>

\* one pass of the while loop that does not break
LenLoopAgain ==
    /\ pc = "len_loop"
    /\ ~LoopStable(base_size_without_len, length_str)
    /\ length_str' = NewLengthStr(base_size_without_len, length_str)
    /\ iters' = iters + 1
    /\ UNCHANGED <<self, pc, message_bytes, base_size_without_len, fetchVars,
                   pollVars, flowVars, start_delay>>

\* the pass that breaks, the assembly of the frame and its assignment to
\* self._payload
LenLoopBreak ==
    /\ pc = "len_loop"
    /\ LoopStable(base_size_without_len, length_str)
    /\ iters' = iters + 1
    /\ self' = [self EXCEPT !.payload = AssemblePayload(length_str, message_bytes)]
    /\ pc' = "idle"
    /\ UNCHANGED <<message_bytes, base_size_without_len, length_str, fetchVars,
                   pollVars, flowVars, start_delay>>

BuildNext == BuildStart \/ LenLoopAgain \/ LenLoopBreak

BuildSpec == BuildInit /\ [][BuildNext]_vars

---------------------------------------------------------------------------
(* MarstekCtApi.fetch_data.                                                *)

\* last_error of the "except socket.timeout" handler
TimeoutMessage == "Timeout - No response from meter"

\* last_error of the "except Exception as e" handler
UnexpectedMessage(e) == "Unexpected error: " \o e

\* a second except clause that names OSError
SecondHandlerClass_OSError == "OSError"

\* the classes the two except clauses name, in their order
FirstHandlerClass == "timeout"
SecondHandlerClass == "Exception"

\* a range that runs one value too far
RangeHasNext_OneMore(a, retries) == a <= retries

\* range(1, self._retries + 1) has a value after a
RangeHasNext(a, retries) == a + 1 <= retries

\* a sleep after the last attempt too
SleepsAfter_Always(a, retries) == a <= retries

\* the test that guards time.sleep
SleepsAfter(a, retries) == a < retries

\* a send of the frame without its checksum digits
Datagram_NoChecksum(sock, obj) ==
    [sock |-> sock, data |-> SubSeq(obj.payload, 1, Len(obj.payload) - 2),
     addr |-> <<obj.host, obj.port>>]

\* what sock.sendto hands to the network
Datagram(sock, obj) ==
    [sock |-> sock, data |-> obj.payload, addr |-> <<obj.host, obj.port>>]

\* a socket that is not closed when the block is left
WithExit_Leak(socks, sock) == socks

\* the sockets left open when the with block is left, normally or by an exception
WithExit(socks, sock) == socks \ {sock}

\* the record kept of how an attempt ended: what happened, and str(e) of
\* the exception if one was raised
Outcome(kind, e) == [kind |-> kind, text |-> e.text]

\* the socket of the attempt in progress
CurrentSock == nextSock - 1

\* fetch_data is entered: last_error = None and the for statement is reached
FetchBegin ==
    /\ pc \in {"idle", "done"}
    /\ calls' = calls + 1
    /\ last_error' = None
    /\ attempt' = 0
    /\ response' = <<>>
    /\ exc' = NoException
    /\ result' = NoResult
    /\ callSocks' = {}
    /\ sent' = <<>>
    /\ outcomes' = <<>>
    /\ delays' = 0
    /\ slept' = 0
    /\ pc' = "next"
    /\ UNCHANGED <<self, buildVars, openSocks, nextSock>>

\* a caller invokes fetch_data
FetchStart == calls < MaxCalls /\ FetchBegin /\ UNCHANGED <<pollVars, flowVars, start_delay>>

\* the first call on a new client
FirstFetch == calls = 0 /\ FetchBegin /\ UNCHANGED <<pollVars, flowVars, start_delay>>

\* the for statement takes its next value, or the loop ends and the error
\* dict is returned
LoopNext ==
    /\ pc = "next"
    /\ IF RangeHasNext(attempt, self.retries)
       THEN /\ attempt' = attempt + 1
            /\ pc' = "socket"
            /\ UNCHANGED result
       ELSE /\ result' = [error |-> last_error]
            /\ pc' = "done"
            /\ UNCHANGED attempt
    /\ UNCHANGED <<self, buildVars, pollVars, flowVars, last_error, response, exc, openSocks,
                   callSocks, nextSock, sent, outcomes, delays, slept, calls, start_delay>>

\* one socket per call: created by the first attempt, reused by the others
SocketOpen_Reuse ==
    /\ pc = "socket"
    /\ IF callSocks = {}
       THEN /\ openSocks' = openSocks \cup {nextSock}
            /\ callSocks' = callSocks \cup {nextSock}
            /\ nextSock' = nextSock + 1
       ELSE /\ openSocks' = openSocks \cup callSocks
            /\ UNCHANGED <<callSocks, nextSock>>
    /\ pc' = "sendto"
    /\ UNCHANGED <<self, buildVars, pollVars, flowVars, attempt, last_error, response, exc, result,
                   sent, outcomes, delays, slept, calls, start_delay>>

\* socket.socket(...) returns, the with block is entered, settimeout is called
SocketOpen ==
    /\ pc = "socket"
    /\ openSocks' = openSocks \cup {nextSock}
    /\ callSocks' = callSocks \cup {nextSock}
    /\ nextSock' = nextSock + 1
    /\ pc' = "sendto"
    /\ UNCHANGED <<self, buildVars, pollVars, flowVars, attempt, last_error, response, exc, result,
                   sent, outcomes, delays, slept, calls, start_delay>>

\* socket.socket(...) raises
SocketError ==
    /\ pc = "socket"
    /\ exc' \in SocketErrors
    /\ outcomes' = Append(outcomes, Outcome("socket_error", exc'))
    /\ pc' = "except"
    /\ UNCHANGED <<self, buildVars, pollVars, flowVars, attempt, last_error, response, result,
                   openSocks, callSocks, nextSock, sent, delays, slept, calls, start_delay>>

\* sock.sendto returns
SendTo ==
    /\ pc = "sendto"
    /\ self.host # BadHost
    /\ sent' = Append(sent, Datagram(CurrentSock, self))
    /\ pc' = "recvfrom"
    /\ UNCHANGED <<self, buildVars, pollVars, flowVars, attempt, last_error, response, exc, result,
                   openSocks, callSocks, nextSock, outcomes, delays, slept, calls, start_delay>>

\* sock.sendto raises; the with block is left
SendError ==
    /\ pc = "sendto"
    /\ exc' \in SendErrors(self.host)
    /\ openSocks' = WithExit(openSocks, CurrentSock)
    /\ outcomes' = Append(outcomes, Outcome("send_error", exc'))
    /\ pc' = "except"
    /\ UNCHANGED <<self, buildVars, pollVars, flowVars, attempt, last_error, response, result,
                   callSocks, nextSock, sent, delays, slept, calls, start_delay>>

\* sock.recvfrom returns one of these datagrams; the with block is left
Receive(datagrams) ==
    /\ pc = "recvfrom"
    /\ \E d \in datagrams :
          /\ Len(d) <= RecvBufSize
          /\ response' = d
    /\ openSocks' = WithExit(openSocks, CurrentSock)
    /\ outcomes' = Append(outcomes, Outcome("received", NoException))
    /\ pc' = "decode"
    /\ UNCHANGED <<self, buildVars, pollVars, flowVars, attempt, last_error, exc, result, callSocks,
                   nextSock, sent, delays, slept, calls, start_delay>>

RecvFrom == Receive(Datagrams)

\* sock.recvfrom returns a response of the decoding specification
RecvFromDevice == Receive(DecodeInputs)

\* sock.recvfrom raises one of these exceptions; the with block is left
RecvRaises(errors) ==
    /\ pc = "recvfrom"
    /\ exc' \in errors
    /\ openSocks' = WithExit(openSocks, CurrentSock)
    /\ outcomes' = Append(outcomes,
           Outcome(IF exc'.cls = "timeout" THEN "timeout" ELSE "recv_error", exc'))
    /\ pc' = "except"
    /\ UNCHANGED <<self, buildVars, pollVars, flowVars, attempt, last_error, response, result,
                   callSocks, nextSock, sent, delays, slept, calls, start_delay>>

\* sock.recvfrom raises, socket.timeout or another exception
RecvError == RecvRaises(RecvErrors)

\* a malformed response handled like a transport failure: recorded and retried
DecodeReturn_RetryMalformed ==
    /\ pc = "decode"
    /\ IF IsErrorRecord(DecodeResponse(response))
       THEN /\ last_error' = DecodeResponse(response).error
            /\ pc' = "handled"
            /\ UNCHANGED result
       ELSE /\ result' = DecodeResponse(response)
            /\ pc' = "done"
            /\ UNCHANGED last_error
    /\ UNCHANGED <<self, buildVars, pollVars, flowVars, attempt, response, exc, openSocks,
                   callSocks, nextSock, sent, outcomes, delays, slept, calls, start_delay>>

\* return self._decode_response(response)
DecodeReturn ==
    /\ pc = "decode"
    /\ result' = DecodeResponse(response)
    /\ pc' = "done"
    /\ UNCHANGED <<self, buildVars, pollVars, flowVars, attempt, last_error, response, exc,
                   openSocks, callSocks, nextSock, sent, outcomes, delays,
                   slept, calls, start_delay>>

\* handlers that keep the first error of the call instead of the last
Except_KeepFirst ==
    /\ pc = "except"
    /\ IF IsSubclass(exc.cls, FirstHandlerClass)
       THEN /\ last_error' = IF last_error = None THEN TimeoutMessage ELSE last_error
            /\ pc' = "handled"
       ELSE IF IsSubclass(exc.cls, SecondHandlerClass)
       THEN /\ last_error' = IF last_error = None
                             THEN UnexpectedMessage(exc.text) ELSE last_error
            /\ pc' = "handled"
       ELSE pc' = "propagated" /\ UNCHANGED last_error
    /\ exc' = NoException
    /\ UNCHANGED <<self, buildVars, pollVars, flowVars, attempt, response, result, openSocks,
                   callSocks, nextSock, sent, outcomes, delays, slept, calls, start_delay>>

\* the except clauses: the first that matches the exception runs; an
\* exception that none matches leaves fetch_data
Except ==
    /\ pc = "except"
    /\ IF IsSubclass(exc.cls, FirstHandlerClass)
       THEN last_error' = TimeoutMessage /\ pc' = "handled"
       ELSE IF IsSubclass(exc.cls, SecondHandlerClass)
       THEN last_error' = UnexpectedMessage(exc.text) /\ pc' = "handled"
       ELSE pc' = "propagated" /\ UNCHANGED last_error
    /\ exc' = NoException
    /\ UNCHANGED <<self, buildVars, pollVars, flowVars, attempt, response, result, openSocks,
                   callSocks, nextSock, sent, outcomes, delays, slept, calls, start_delay>>

\* after either handler: "if attempt < self._retries"
AfterHandler ==
    /\ pc = "handled"
    /\ pc' = IF SleepsAfter(attempt, self.retries) THEN "sleep" ELSE "next"
    /\ UNCHANGED <<self, buildVars, pollVars, flowVars, fetchVars, start_delay>>

\* time.sleep(self._retry_delay)
Sleep ==
    /\ pc = "sleep"
    /\ delays' = delays + 1
    /\ slept' = slept + self.retry_delay
    /\ pc' = "next"
    /\ UNCHANGED <<self, buildVars, pollVars, flowVars, attempt, last_error, response, exc, result,
                   openSocks, callSocks, nextSock, sent, outcomes, calls, start_delay>>

\* the steps of a fetch_data call in progress
FetchStep ==
    \/ LoopNext
    \/ SocketOpen
    \/ SocketError
    \/ SendTo
    \/ SendError
    \/ RecvFrom
    \/ RecvError
    \/ DecodeReturn
    \/ Except
    \/ AfterHandler
    \/ Sleep

Next == BuildNext \/ FetchStart \/ FetchStep

Spec == Init /\ [][Next]_vars

\* a call that has begun keeps running: every blocking call it makes returns
\* or raises (recvfrom within the timeout, sleep after the delay)
LiveSpec == Spec /\ WF_vars(BuildNext) /\ WF_vars(FetchStep)

\* the decoding specification: the first call on a new client receives a
\* datagram, which fetch_data decodes and returns
DecodeNext ==
    \/ BuildNext
    \/ FirstFetch
    \/ LoopNext
    \/ SocketOpen
    \/ SendTo
    \/ RecvFromDevice
    \/ DecodeReturn

DecodeInit == InitWith(DecodeIdentities)

DecodeSpec == DecodeInit /\ [][DecodeNext]_vars

---------------------------------------------------------------------------
(* The polling wrapper (custom_components/marstek_ct/__init__.py):         *)
(* async_setup_entry, _apply_backoff and async_update_data.                *)

\* timedelta(seconds=5) and timedelta(seconds=60), in milliseconds
BASE_UPDATE_INTERVAL == 5000
MAX_BACKOFF_INTERVAL == 60000
BACKOFF_FACTOR == 2

PollValues == {"setup", "ready", "awaiting", "overlap"}

\* min(a, b)
Min(a, b) == IF a <= b THEN a ELSE b

\* an interval that doubles from the first failure on
NewInterval_FromFirstFailure(failures) ==
    IF failures <= 0 THEN BASE_UPDATE_INTERVAL
    ELSE Min(BASE_UPDATE_INTERVAL * (BACKOFF_FACTOR ^ failures), MAX_BACKOFF_INTERVAL)

\* _apply_backoff: new_interval for this value of consecutive_failures
NewInterval(failures) ==
    IF failures <= 0 THEN BASE_UPDATE_INTERVAL
    ELSE Min(BASE_UPDATE_INTERVAL * (BACKOFF_FACTOR ^ (failures - 1)),
             MAX_BACKOFF_INTERVAL)

\* _apply_backoff: the coordinator after the call
ApplyBackoff(coord, failures) ==
    IF coord = NoCoordinator THEN coord
    ELSE IF coord.update_interval # NewInterval(failures)
    THEN [coord EXCEPT !.update_interval = NewInterval(failures)]
    ELSE coord

\* str() of the asyncio.TimeoutError of wait_for is empty
OuterTimeoutMessage == "Timeout while communicating with API: "

\* async_setup_entry once the client is built: the counter, the coordinator
\* with the base interval, and the first _apply_backoff
SetupEntry ==
    /\ poll = "setup"
    /\ pc = "idle"
    /\ consecutive_failures' = 0
    /\ coordinator' = ApplyBackoff([update_interval |-> BASE_UPDATE_INTERVAL], 0)
    /\ poll' = "ready"
    /\ UNCHANGED <<self, pc, buildVars, fetchVars, polls, update_result, flowVars, start_delay>>

\* async_update_data is called (the first refresh or a scheduled one) and
\* hands fetch_data to the executor, which starts it after one of these
\* delays; the one call modelled at a time begins when the call before it,
\* cut by the outer timeout or not, has returned
UpdateBegin(startDelays) ==
    /\ poll = "ready"
    /\ polls < MaxPolls
    /\ FetchBegin
    /\ polls' = polls + 1
    /\ poll' = "awaiting"
    /\ start_delay' \in startDelays
    /\ UNCHANGED <<coordinator, consecutive_failures, update_result, flowVars>>

\* the polling specification takes no account of time
UpdateStart == UpdateBegin({0})

\* wait_for returns what fetch_data returned: an error record counts as a
\* failure, a success record resets the counter
UpdateData ==
    /\ poll = "awaiting"
    /\ pc = "done"
    /\ IF IsErrorRecord(result)
       THEN /\ consecutive_failures' = consecutive_failures + 1
            /\ coordinator' = ApplyBackoff(coordinator, consecutive_failures + 1)
       ELSE IF consecutive_failures # 0
       THEN /\ consecutive_failures' = 0
            /\ coordinator' = ApplyBackoff(coordinator, 0)
       ELSE UNCHANGED <<coordinator, consecutive_failures>>
    /\ update_result' = result
    /\ poll' = "ready"
    /\ UNCHANGED <<self, pc, buildVars, fetchVars, polls, flowVars, start_delay>>

\* wait_for raises asyncio.TimeoutError while fetch_data has not returned;
\* the executor's thread goes on with the call
UpdateTimeout ==
    /\ poll = "awaiting"
    /\ pc \in {"next", "socket", "sendto", "recvfrom", "decode", "except",
               "handled", "sleep"}
    /\ consecutive_failures' = consecutive_failures + 1
    /\ coordinator' = ApplyBackoff(coordinator, consecutive_failures + 1)
    /\ update_result' = [error |-> OuterTimeoutMessage]
    /\ poll' = "ready"
    /\ UNCHANGED <<self, pc, buildVars, fetchVars, polls, flowVars, start_delay>>

\* constructor arguments of the polled client (entry.data)
PollIdentities ==
    { [host |-> GoodHost, device_type |-> DevLong, battery_mac |-> BatteryMac,
       ct_mac |-> CtMac, ct_type |-> CtHme4] }

\* what the polled meter sends when it answers: a full response or one
\* without ETX
PollDatagrams == {FullResponse, NoEtxResponse}

\* sock.recvfrom returns a datagram of the polled meter
RecvFromMeter == Receive(PollDatagrams)

\* the polled meter answers, well or badly, or recvfrom raises; creating
\* the socket and sending succeed
PollNext ==
    \/ BuildNext
    \/ SetupEntry
    \/ UpdateStart
    \/ LoopNext
    \/ SocketOpen
    \/ SendTo
    \/ RecvFromMeter
    \/ RecvError
    \/ DecodeReturn
    \/ Except
    \/ AfterHandler
    \/ Sleep
    \/ UpdateData
    \/ UpdateTimeout

PollSpecInit == InitWith(PollIdentities)

\* the polling specification: one config entry is set up and polled
PollSpec == PollSpecInit /\ [][PollNext]_vars

---------------------------------------------------------------------------
(* Time under the polling wrapper.  The clock of a poll starts when        *)
(* async_update_data begins to wait.  An attempt that recvfrom ends by     *)
(* socket.timeout takes self._timeout, a sleep self._retry_delay, and      *)
(* every other statement, a datagram that arrives included, no time.       *)

\* FIRST_REFRESH_TIMEOUT = 10.0, the timeout async_update_data gives
\* wait_for, in milliseconds
FIRST_REFRESH_TIMEOUT == 10000

\* ms the executor can take to start the job it is handed: at once, or
\* after the jobs queued before it
StartDelays == {0, 500, 6000}

\* attempts of the current call that recvfrom ended by socket.timeout
TimedOutAttempts ==
    Cardinality({i \in 1..Len(outcomes) : outcomes[i].kind = "timeout"})

\* ms from the start of the wait to the moment fetch_data reached the
\* statement it is at
FetchClock == start_delay + self.timeout * TimedOutAttempts + slept

\* the longest the call fetch_data is in can block
Blocking ==
    IF pc = "recvfrom" THEN self.timeout
    ELSE IF pc = "sleep" THEN self.retry_delay
    ELSE 0

\* fetch_data can be inside recvfrom or sleep t ms after the wait began
InProgressAt(t) ==
    /\ pc \in {"recvfrom", "sleep"}
    /\ FetchClock <= t
    /\ t < FetchClock + Blocking

\* the last async_update_data returned the error of the outer timeout
CutByTimeout ==
    /\ IsErrorRecord(update_result)
    /\ update_result.error = OuterTimeoutMessage

\* ms after the start of the wait that timed out at which the coordinator
\* calls async_update_data again: update_interval after it returned
NextCallAt == FIRST_REFRESH_TIMEOUT + coordinator.update_interval

\* sock.recvfrom returns a full response
RecvInTime == Receive({FullResponse})

\* sock.recvfrom raises socket.timeout, self._timeout after it was called
RecvTimedOut == RecvRaises({e \in RecvErrors : e.cls = "timeout"})

\* a step of fetch_data; while the wrapper waits, a step that ends after the
\* timeout of the wait is taken after that timeout
TimedFetchStep ==
    /\ \/ LoopNext
       \/ SocketOpen
       \/ SendTo
       \/ RecvInTime
       \/ RecvTimedOut
       \/ DecodeReturn
       \/ Except
       \/ AfterHandler
       \/ Sleep
    /\ poll = "awaiting" => FetchClock' <= FIRST_REFRESH_TIMEOUT

\* async_update_data is called when the fetch_data before it has returned
TimedUpdateStart ==
    /\ CutByTimeout => FetchClock <= NextCallAt
    /\ UpdateBegin(StartDelays)

\* wait_for raises asyncio.TimeoutError when its timeout has passed and
\* fetch_data is still in a blocking call
OuterTimeout ==
    /\ InProgressAt(FIRST_REFRESH_TIMEOUT)
    /\ UpdateTimeout

\* async_update_data is called while the fetch_data that the outer timeout
\* left behind is still in a blocking call: two calls run on the one client,
\* and the model follows them no further
UpdateOverlap ==
    /\ poll = "ready"
    /\ polls < MaxPolls
    /\ CutByTimeout
    /\ InProgressAt(NextCallAt)
    /\ polls' = polls + 1
    /\ poll' = "overlap"
    /\ UNCHANGED <<self, pc, buildVars, fetchVars, coordinator,
                   consecutive_failures, update_result, flowVars, start_delay>>

TimedNext ==
    \/ BuildNext
    \/ SetupEntry
    \/ TimedUpdateStart
    \/ TimedFetchStep
    \/ UpdateData
    \/ OuterTimeout
    \/ UpdateOverlap

\* the timed polling specification
TimedSpec == PollSpecInit /\ [][TimedNext]_vars

---------------------------------------------------------------------------
(* The config flow (custom_components/marstek_ct/config_flow.py):          *)
(* ConfigFlow.async_step_user and validate_input, and the client that      *)
(* async_setup_entry then builds from the created entry.                   *)

FlowValues == {"validating", "cannot_connect", "unknown", "created", "setup"}

\* str.lower() of ASCII text
Lower(s) == [i \in 1..Len(s) |-> IF s[i] >= 65 /\ s[i] <= 90 THEN s[i] + 32 ELSE s[i]]

\* str.count(c) for a single character c
Count(s, c) == Cardinality({i \in 1..Len(s) : s[i] = c})

\* str.replace(c, "") for a single character c
Without(s, c) == SelectSeq(s, LAMBDA x : x # c)

\* ":".join(s[i : i + 2] for i in range(0, 12, 2)) for s of 12 characters
ColonPairs(s) ==
    [i \in 1..17 |-> IF i % 3 = 0 THEN 58 ELSE s[2 * (i \div 3) + (i % 3)]]

\* homeassistant.helpers.device_registry.format_mac: 17 characters with
\* five colons are lowercased; 17 with five hyphens or 14 with two dots lose
\* the separators; 12 characters are lowercased and joined in pairs by
\* colons; anything else is returned as it is
FormatMac(mac) ==
    LET to_test == IF Len(mac) = 17 /\ Count(mac, 45) = 5 THEN Without(mac, 45)
                   ELSE IF Len(mac) = 14 /\ Count(mac, 46) = 2 THEN Without(mac, 46)
                   ELSE mac
    IN  IF Len(mac) = 17 /\ Count(mac, 58) = 5 THEN Lower(mac)
        ELSE IF Len(to_test) = 12 THEN ColonPairs(Lower(to_test))
        ELSE mac

\* async_step_user, lines 58 to 61: the form with device_type put together
\* from its two parts
FinalData(input) ==
    [host |-> input.host,
     battery_mac |-> input.battery_mac,
     ct_mac |-> input.ct_mac,
     ct_type |-> input.ct_type,
     device_type |-> input.device_type_prefix \o <<45>> \o input.device_type_number]

\* validate_input, lines 30 to 32: a copy of the data with both addresses
\* normalized
ValidatedData(data) ==
    [data EXCEPT !.battery_mac = FormatMac(data.battery_mac),
                 !.ct_mac = FormatMac(data.ct_mac)]

\* the constructor arguments taken from a data dict (validate_input lines 34
\* to 40, async_setup_entry lines 27 to 33)
ClientArgs(data) ==
    [host |-> data.host, device_type |-> data.device_type,
     battery_mac |-> data.battery_mac, ct_mac |-> data.ct_mac,
     ct_type |-> data.ct_type]

\* "aa:bb:cc:dd:ee:ff", "AA-BB-CC-DD-EE-FF", "aabb.ccdd.eeff" and "AABBCC"
BatteryMacLower == <<97, 97, 58, 98, 98, 58, 99, 99, 58, 100, 100, 58, 101, 101, 58, 102, 102>>
BatteryMacHyphens == <<65, 65, 45, 66, 66, 45, 67, 67, 45, 68, 68, 45, 69, 69, 45, 70, 70>>
BatteryMacDots == <<97, 97, 98, 98, 46, 99, 99, 100, 100, 46, 101, 101, 102, 102>>
BatteryMacShort == <<65, 65, 66, 66, 67, 67>>

\* a device_type_number that makes the validated frame need a second pass
\* of the length loop
NumberLong == Run(48, 42)

\* forms the schema accepts: the battery address in several spellings, one
\* of them not ASCII; the prefix "HMG" or "HMK", the number "50" or the long
\* one, the CT type "HME-4" or "HME-3"
UserInputs ==
    { [host |-> GoodHost, battery_mac |-> b, ct_mac |-> c,
       device_type_prefix |-> p, device_type_number |-> n, ct_type |-> t] :
          b \in {BatteryMac, BatteryMacColons, BatteryMacLower, BatteryMacHyphens,
                 BatteryMacDots, BatteryMacShort, BatteryMacNonAscii},
          c \in {CtMac, CtMacColons},
          p \in {<<72, 77, 71>>, <<72, 77, 75>>},
          n \in {<<53, 48>>, NumberLong},
          t \in {CtHme4, <<72, 77, 69, 45, 51>>} }

\* async_step_user has received a form, no entry has its unique id, and
\* validate_input is constructing its client: __init__ has set the
\* attributes and is about to call _build_payload
ConfigInit ==
    /\ \E input \in UserInputs :
          /\ user_input = input
          /\ self = NewClient(ClientArgs(ValidatedData(FinalData(input))))
    /\ pc = "build"
    /\ BuildVarsInit
    /\ FetchInit
    /\ PollInit
    /\ flow = "validating"
    /\ entry = NoEntry
    /\ validated = <<>>
    /\ start_delay = 0

\* validate_input, line 42: test_connection, which is fetch_data, runs on
\* the new client
TestConnection ==
    /\ flow = "validating"
    /\ calls = 0
    /\ FetchBegin
    /\ UNCHANGED <<pollVars, flowVars, start_delay>>

\* the constructor raised UnicodeEncodeError: async_step_user's
\* "except Exception" shows the form again with the error "unknown"
ValidationRaised ==
    /\ flow = "validating"
    /\ pc = "raised"
    /\ flow' = "unknown"
    /\ UNCHANGED <<self, pc, buildVars, fetchVars, pollVars, user_input, entry,
                   validated, start_delay>>

\* test_connection has returned: an error record raises CannotConnect and
\* the form is shown again; otherwise async_create_entry stores final_data,
\* the form's data with device_type put together
ValidationDone ==
    /\ flow = "validating"
    /\ pc = "done"
    /\ IF IsErrorRecord(result)
       THEN /\ flow' = "cannot_connect"
            /\ UNCHANGED <<entry, validated>>
       ELSE /\ flow' = "created"
            /\ entry' = FinalData(user_input)
            /\ validated' = self.payload
    /\ UNCHANGED <<self, pc, buildVars, fetchVars, pollVars, user_input, start_delay>>

\* async_setup_entry, lines 27 to 33: the polling client is constructed from
\* entry.data and is about to call _build_payload
SetupClient ==
    /\ flow = "created"
    /\ self' = NewClient(ClientArgs(entry))
    /\ pc' = "build"
    /\ message_bytes' = <<>>
    /\ base_size_without_len' = 0
    /\ length_str' = <<>>
    /\ iters' = 0
    /\ calls' = 0
    /\ flow' = "setup"
    /\ UNCHANGED <<attempt, last_error, response, exc, result, openSocks,
                   callSocks, nextSock, sent, outcomes, delays, slept, pollVars,
                   user_input, entry, validated, start_delay>>

\* the form is validated against a meter that answers, well or badly, or
\* not at all, and the entry it creates is set up
ConfigNext ==
    \/ BuildNext
    \/ TestConnection
    \/ LoopNext
    \/ SocketOpen
    \/ SendTo
    \/ RecvFromMeter
    \/ RecvError
    \/ DecodeReturn
    \/ Except
    \/ AfterHandler
    \/ Sleep
    \/ ValidationRaised
    \/ ValidationDone
    \/ SetupClient

\* the config flow specification
ConfigSpec == ConfigInit /\ [][ConfigNext]_vars

\* the frame-building specification, run to its end
BuildLiveSpec == BuildSpec /\ WF_vars(BuildNext)

---------------------------------------------------------------------------
(* Properties of fetch_data.                                               *)

Last(s) == s[Len(s)]

\* the kinds of the outcomes of the current call's attempts, in order
Kinds == [i \in 1..Len(outcomes) |-> outcomes[i].kind]

\* the current call has returned
Returned == pc = "done"

\* every attempt of the current call ended in a receive timeout
AllTimedOut ==
    /\ outcomes # <<>>
    /\ \A i \in 1..Len(outcomes) : outcomes[i].kind = "timeout"

\* the last attempt of the current call failed (no datagram was received)
LastFailed == outcomes # <<>> /\ Last(outcomes).kind # "received"

\* the pc values of a fetch_data call that has not returned
InCall ==
    {"next", "socket", "sendto", "recvfrom", "decode", "except", "handled", "sleep"}

\* the keys of a success record
RecordKeys == {RESPONSE_LABELS[i] : i \in 1..Len(RESPONSE_LABELS)} \cup {"battery_power"}

\* C1 as stated: when every attempt of a call times out, the call makes 3
\* sends and 2 delays and returns one error record whose message is
\* "Timeout -- no response from device" (the dash of the claim is written --).
C1_AsStated ==
    (Returned /\ AllTimedOut) =>
        /\ Len(sent) = 3
        /\ delays = 2
        /\ result = [error |-> "Timeout -- no response from device"]

\* C1 (amended): when every attempt of a call times out, the call makes
\* exactly 3 sends and exactly 2 delays of 300 ms, none after the third
\* attempt, and returns exactly one error record, whose message is
\* "Timeout - No response from meter".
C1_RetryExhaustion ==
    /\ (Returned /\ AllTimedOut) =>
          /\ Len(outcomes) = 3
          /\ Len(sent) = 3
          /\ delays = 2
          /\ slept = 600
          /\ result = [error |-> "Timeout - No response from meter"]
    /\ (pc = "sleep" /\ AllTimedOut) => attempt < 3

C1_Witness == Returned /\ AllTimedOut /\ Len(outcomes) = 3

\* no attempt follows one that received a datagram, and what it received is
\* decoded and returned
C2_Inv ==
    /\ \A i \in 1..(Len(outcomes) - 1) : outcomes[i].kind # "received"
    /\ (outcomes # <<>> /\ Last(outcomes).kind = "received") =>
          /\ pc \in {"decode", "done"}
          /\ Len(outcomes) = attempt
          /\ Returned => result = DecodeResponse(response)

\* the step from the received datagram to the return changes nothing else
C2_Step ==
    (pc = "decode") =>
        /\ pc' = "done"
        /\ sent' = sent
        /\ delays' = delays
        /\ attempt' = attempt
        /\ outcomes' = outcomes

\* C2: the first attempt on which a datagram is received is the last of the
\* call: the call returns the decode result of that datagram, a success
\* record or a malformed-frame error record, with no further attempt, send
\* or delay, on whatever attempt the datagram arrives.
C2_ReceiveEndsCall == []C2_Inv /\ [][C2_Step]_vars

C2_Witness ==
    /\ Returned
    /\ Kinds = <<"timeout", "received">>
    /\ response = NoEtxResponse
    /\ result = [error |-> "Invalid response format: ETX not found in response"]

\* where a call can be: attempt k runs when the k-1 before it have ended
C3_Inv ==
    /\ attempt \in 0..3
    /\ pc \in (InCall \ {"next"}) => attempt \in 1..3
    /\ pc \in {"socket", "sendto", "recvfrom"} => Len(outcomes) = attempt - 1
    /\ pc \in {"decode", "except", "handled", "sleep"} => Len(outcomes) = attempt
    /\ pc = "sleep" => attempt < 3 /\ LastFailed
    /\ pc \in (InCall \ {"next", "sleep"}) => delays = attempt - 1

\* how a call moves: from ATTEMPT(k) or DELAY to ATTEMPT(k+1)
C3_Step ==
    /\ attempt' # attempt =>
          \/ attempt' = attempt + 1 /\ pc' = "socket"
          \/ attempt' = 0 /\ pc \in {"idle", "done"} /\ pc' = "next"
    /\ (pc = "next" /\ attempt < 3) => (attempt' = attempt + 1 /\ pc' = "socket")
    /\ pc = "sleep" => (pc' = "next" /\ delays' = delays + 1 /\ attempt' = attempt)
    /\ delays' # delays => (pc = "sleep" \/ pc' = "next")

\* a call in progress returns
C3_Terminates == [](pc \in InCall => <>Returned)

\* C3: every call reaches DONE whatever the outcomes of its attempts; the
\* attempts run one after another as k = 1, 2, 3 from ATTEMPT(1), never more
\* than 3; a delay occurs only after a failed attempt k < 3 and is followed
\* by ATTEMPT(k+1).
C3_FetchStateMachine == []C3_Inv /\ [][C3_Step]_vars /\ C3_Terminates

C3_Witness ==
    /\ Returned
    /\ Kinds = <<"send_error", "timeout", "recv_error">>
    /\ delays = 2

\* C4: a transport failure that is not a timeout is retried and delayed like
\* a timeout, and when all 3 attempts fail the error record carries the
\* message of the last failed attempt only, whatever the earlier failures.
C4_LastErrorOnly ==
    (Returned /\ LastFailed) =>
        /\ Len(outcomes) = 3
        /\ \A i \in 1..3 : outcomes[i].kind # "received"
        /\ delays = 2
        /\ slept = 600
        /\ result = [error |->
                        IF Last(outcomes).kind = "timeout"
                        THEN "Timeout - No response from meter"
                        ELSE "Unexpected error: " \o Last(outcomes).text]

C4_Witness ==
    /\ Returned
    /\ Kinds = <<"timeout", "socket_error", "recv_error">>
    /\ result = [error |-> "Unexpected error: [Errno 111] Connection refused"]

\* C5: no exception leaves fetch_data for a network-layer problem: whatever
\* the attempts' outcomes, the call returns a success record or an error
\* record that holds the error marker with a message.
C5_NeverPropagates ==
    /\ pc # "propagated"
    /\ Returned =>
          \/ /\ DOMAIN result = {"error"}
             /\ result.error # None
          \/ DOMAIN result = RecordKeys

C5_Witness ==
    /\ Returned
    /\ self.host = BadHost
    /\ Kinds = <<"socket_error", "send_error", "send_error">>
    /\ DOMAIN result = {"error"}

\* the attempts of the current call that created a socket
SocketsMade ==
    Cardinality({i \in 1..Len(outcomes) : outcomes[i].kind # "socket_error"})
        + (IF pc \in {"sendto", "recvfrom"} THEN 1 ELSE 0)

\* C6 as stated: a call in which no socket creation failed opens exactly one
\* socket, and every send of the call uses it.
C6_AsStated ==
    (Returned /\ \A i \in 1..Len(outcomes) : outcomes[i].kind # "socket_error") =>
        /\ Cardinality(callSocks) = 1
        /\ \A i \in 1..Len(sent) : callSocks = {sent[i].sock}

\* C6 (amended): every attempt of a call opens a socket of its own (none
\* when socket creation fails), sends only on it and closes it before the
\* attempt ends, so a call opens one socket per attempt and no socket is
\* kept for the next attempt or the next call.
C6_SocketPerAttempt ==
    /\ Cardinality(callSocks) = SocketsMade
    /\ \A i \in 1..Len(sent) : sent[i].sock \in callSocks
    /\ \A i, j \in 1..Len(sent) : i # j => sent[i].sock # sent[j].sock
    /\ openSocks = IF pc \in {"sendto", "recvfrom"} THEN {CurrentSock} ELSE {}
    /\ pc \in {"sendto", "recvfrom"} => CurrentSock \in callSocks

C6_Witness ==
    /\ Returned
    /\ calls = 2
    /\ Kinds = <<"timeout", "timeout", "received">>
    /\ Cardinality(callSocks) = 3
    /\ Len(sent) = 3

\* C7: the socket is closed on every exit path: when a call has returned,
\* with a success record, a malformed-frame error or the error of the last
\* failed attempt, every socket it opened is closed; and a call never holds
\* more than one open socket.
C7_SocketClosed ==
    /\ Cardinality(openSocks) <= 1
    /\ Returned => openSocks \cap callSocks = {}

C7_Witness ==
    /\ Returned
    /\ Kinds = <<"send_error", "timeout", "received">>
    /\ response = NoPipeResponse
    /\ Cardinality(callSocks) = 3

\* what is sent, and the attributes set at construction
C8_Inv ==
    /\ \A i \in 1..Len(sent) :
          /\ sent[i].data = self.payload
          /\ sent[i].data # <<>>
          /\ sent[i].addr = <<self.host, 12345>>
    /\ self.port = 12345
    /\ self.timeout = 3000
    /\ self.retries = 3
    /\ self.retry_delay = 300

\* the frame is assigned once, by the constructor; a call assigns nothing
C8_Step ==
    /\ self'.payload # self.payload => (pc = "len_loop" /\ pc' = "idle")
    /\ pc \notin {"build", "len_loop"} => self' = self

\* C8: the frame is computed once, at construction, and never changes: every
\* send of every attempt of every call transmits that frame to (host, 12345),
\* and fetch_data leaves frame, host, port, timeout, retry count and retry
\* delay as they were.
C8_FrameImmutable == []C8_Inv /\ [][C8_Step]_vars

C8_Witness ==
    /\ Returned
    /\ calls = 2
    /\ Len(sent) = 3
    /\ sent[1].data = sent[3].data

---------------------------------------------------------------------------
(* Properties of _build_payload.                                           *)

\* the bytes of a frame between STX and the "|" that begins the message
LengthField(frame) == SubSeq(frame, 3, FirstIndex(frame, SEPARATOR[1]) - 1)

\* the number a string of decimal digits denotes
DecimalValue(digits) == DigitsValue(digits, Len(digits))

\* C9: the ascii-decimal length field of the built frame equals the byte
\* count of the whole frame: SOH, STX, the length digits themselves, the
\* message, ETX and the two checksum digits.
C9_LengthIsTotal ==
    (pc = "idle") =>
        /\ LengthField(self.payload) # <<>>
        /\ \A i \in 1..Len(LengthField(self.payload)) :
              IsDigit(LengthField(self.payload)[i])
        /\ LengthField(self.payload)[1] # 48
        /\ DecimalValue(LengthField(self.payload)) = Len(self.payload)
        /\ Len(self.payload) =
              1 + 1 + Len(LengthField(self.payload)) + Len(MessageText(self)) + 1 + 2

C9_Witness ==
    /\ pc = "idle"
    /\ iters = 2
    /\ Len(LengthField(self.payload)) = 4

\* the loop is left with a stable length string
C10_Inv ==
    (pc = "idle") =>
        /\ iters >= 1
        /\ Str(base_size_without_len + Len(length_str)) = length_str

\* a pass leaves the loop if and only if the recomputed string is unchanged
C10_Step ==
    (pc = "len_loop") =>
        IF Str(base_size_without_len + Len(length_str)) = length_str
        THEN pc' = "idle" /\ length_str' = length_str
        ELSE /\ pc' = "len_loop"
             /\ length_str' = Str(base_size_without_len + Len(length_str))

\* the loop is left
C10_Terminates == [](pc = "len_loop" => <>(pc = "idle"))

\* C10: the loop that resolves the length string ends for every message
\* length, and it ends exactly at the pass that recomputes
\* str(base_size + len(length_str)) and finds it unchanged, after however
\* many passes that takes.
C10_LoopUntilStable == []C10_Inv /\ [][C10_Step]_vars /\ C10_Terminates

C10_Witness ==
    /\ pc = "idle"
    /\ iters = 2
    /\ length_str # FirstLengthStr(base_size_without_len)

\* the value of one lowercase hexadecimal digit, 16 for any other byte
HexValue(c) ==
    IF c \in 48..57 THEN c - 48 ELSE IF c \in 97..102 THEN c - 87 ELSE 16

\* the exclusive or of two bytes
Xor2(a, b) ==
    LET Bit(k) == ((a \div (2 ^ k)) + (b \div (2 ^ k))) % 2
    IN  Bit(0) + 2 * Bit(1) + 4 * Bit(2) + 8 * Bit(3)
            + 16 * Bit(4) + 32 * Bit(5) + 64 * Bit(6) + 128 * Bit(7)

\* the exclusive or of the bytes s[lo..hi], by halves
RECURSIVE XorRange(_, _, _)
XorRange(s, lo, hi) ==
    IF lo > hi THEN 0
    ELSE IF lo = hi THEN s[lo]
    ELSE Xor2(XorRange(s, lo, (lo + hi) \div 2),
              XorRange(s, ((lo + hi) \div 2) + 1, hi))

\* the byte the last two bytes of a frame denote
ChecksumByte(frame) ==
    16 * HexValue(frame[Len(frame) - 1]) + HexValue(frame[Len(frame)])

\* C11: the last two bytes of the built frame are the two lowercase hex
\* digits of the XOR of every frame byte from SOH through ETX (length digits
\* and message included): the XOR of the bytes SOH..ETX with the byte those
\* two digits denote is zero.
C11_ChecksumCoversFrame ==
    (pc = "idle") =>
        /\ Len(self.payload) >= 5
        /\ self.payload[1] = 1
        /\ self.payload[Len(self.payload) - 2] = 3
        /\ FirstIndex(self.payload, 3) = Len(self.payload) - 2
        /\ HexValue(self.payload[Len(self.payload) - 1]) < 16
        /\ HexValue(self.payload[Len(self.payload)]) < 16
        /\ ChecksumByte(self.payload) = XorRange(self.payload, 1, Len(self.payload) - 2)
        /\ Xor2(XorRange(self.payload, 1, Len(self.payload) - 2),
                ChecksumByte(self.payload)) = 0

C11_Witness ==
    /\ pc = "idle"
    /\ iters = 2
    /\ self.payload[Len(self.payload) - 1] \in 49..55
    /\ self.payload[Len(self.payload)] \in 97..102

\* "|HMG-50|AABBCCDDEEFF|HME-4|112233445566|0|0"
ExampleMessage ==
    <<124, 72, 77, 71, 45, 53, 48,
      124, 65, 65, 66, 66, 67, 67, 68, 68, 69, 69, 70, 70,
      124, 72, 77, 69, 45, 52,
      124, 49, 49, 50, 50, 51, 51, 52, 52, 53, 53, 54, 54,
      124, 48, 124, 48>>

\* "|HMG-50|AA:BB:CC:DD:EE:FF|HME-4|11:22:33:44:55:66|0|0"
ExampleMessageColons ==
    <<124, 72, 77, 71, 45, 53, 48,
      124, 65, 65, 58, 66, 66, 58, 67, 67, 58, 68, 68, 58, 69, 69, 58, 70, 70,
      124, 72, 77, 69, 45, 52,
      124, 49, 49, 58, 50, 50, 58, 51, 51, 58, 52, 52, 58, 53, 53, 58, 54, 54,
      124, 48, 124, 48>>

\* sub occurs in s
Contains(s, sub) ==
    \E i \in 1..(Len(s) - Len(sub) + 1) : SubSeq(s, i, i + Len(sub) - 1) = sub

\* frame begins 0x01 0x02 and ascii digits, contains msg, and ends with 0x03
\* and two hex digits
FrameShape(frame, msg) ==
    /\ Len(frame) >= 6
    /\ frame[1] = 1
    /\ frame[2] = 2
    /\ frame[3] \in 48..57
    /\ Contains(frame, msg)
    /\ frame[Len(frame) - 2] = 3
    /\ HexValue(frame[Len(frame) - 1]) < 16
    /\ HexValue(frame[Len(frame)]) < 16

\* the client was given "HMG-50" and "HME-4" and these two addresses
IsExample(battery, ct) ==
    /\ self.host = "192.0.2.10"
    /\ self.device_type = <<72, 77, 71, 45, 53, 48>>
    /\ self.ct_type = <<72, 77, 69, 45, 52>>
    /\ self.battery_mac = battery
    /\ self.ct_mac = ct

\* C12 as stated: for the identity with battery_address "AA:BB:CC:DD:EE:FF"
\* and ct_address "11:22:33:44:55:66" the built frame has the shape above
\* around the message |HMG-50|AABBCCDDEEFF|HME-4|112233445566|0|0.
C12_AsStated ==
    (pc = "idle" /\ IsExample(BatteryMacColons, CtMacColons)) =>
        FrameShape(self.payload, ExampleMessage)

\* C12 (amended): for the identity (host "192.0.2.10", device_type "HMG-50",
\* battery_address "AABBCCDDEEFF", ct_address "112233445566", ct_type
\* "HME-4") the built frame begins 0x01 0x02 followed by ascii digits,
\* contains the message |HMG-50|AABBCCDDEEFF|HME-4|112233445566|0|0 (device
\* type, battery address, CT type, CT address, "0", "0") and ends with 0x03
\* plus two hex digits; the addresses go into the message as they were
\* given, so "AA:BB:CC:DD:EE:FF" and "11:22:33:44:55:66" give the message
\* |HMG-50|AA:BB:CC:DD:EE:FF|HME-4|11:22:33:44:55:66|0|0.
C12_ExampleFrame ==
    /\ (pc = "idle" /\ IsExample(BatteryMac, CtMac)) =>
          /\ FrameShape(self.payload, ExampleMessage)
          /\ self.payload = <<1, 2, 53, 48>> \o ExampleMessage \o <<3, 51, 54>>
    /\ (pc = "idle" /\ IsExample(BatteryMacColons, CtMacColons)) =>
          /\ FrameShape(self.payload, ExampleMessageColons)
          /\ ~Contains(self.payload, ExampleMessage)

C12_Witness ==
    /\ pc = "idle"
    /\ IsExample(BatteryMac, CtMac)
    /\ Contains(self.payload, ExampleMessage)
    /\ iters = 1

---------------------------------------------------------------------------
(* Properties of the constructor.                                          *)

\* s has a character outside ASCII
HasNonAscii(s) == \E i \in 1..Len(s) : s[i] > 127

\* one of the four identifying strings of the client has
NonAsciiIdentity ==
    \/ HasNonAscii(self.device_type)
    \/ HasNonAscii(self.battery_mac)
    \/ HasNonAscii(self.ct_mac)
    \/ HasNonAscii(self.ct_type)

\* such a client never holds a frame and nothing is done with it
C13_Inv ==
    NonAsciiIdentity =>
        /\ pc \in {"build", "raised"}
        /\ self.payload = <<>>
        /\ sent = <<>>
        /\ calls = 0
        /\ openSocks = {}
        /\ nextSock = 1

\* its only step is the one that raises out of the constructor
C13_Step ==
    NonAsciiIdentity => (pc = "build" /\ pc' = "raised" /\ self' = self)

\* C13: constructing a client with a device type, battery address, CT
\* address or CT type that contains a non-ASCII character fails at
\* construction: the encoding error is raised out of the constructor, no
\* client holding a frame comes into existence and nothing is sent.
C13_ConstructionFails == []C13_Inv /\ [][C13_Step]_vars

C13_Witness ==
    /\ pc = "raised"
    /\ ~HasNonAscii(self.device_type)
    /\ HasNonAscii(self.ct_mac)
    /\ self.payload = <<>>

---------------------------------------------------------------------------
(* Properties of _decode_response, stated on the bytes of the response.    *)

\* the position of the first byte b of d, 0 when d has none
FirstPos(d, b) ==
    IF \A i \in 1..Len(d) : d[i] # b THEN 0
    ELSE CHOOSE i \in 1..Len(d) : d[i] = b /\ \A j \in 1..Len(d) : d[j] = b => i <= j

\* the position of the first ETX
EtxPos(d) == FirstPos(d, 3)

\* the position of the first "|", when it precedes the first ETX
PipePos(d) ==
    IF EtxPos(d) = 0 \/ FirstPos(d, 124) > EtxPos(d) THEN 0 ELSE FirstPos(d, 124)

\* the three ways a response is malformed
NoEtx(d) == EtxPos(d) = 0
NoPipeBeforeEtx(d) == EtxPos(d) > 0 /\ PipePos(d) = 0
NonAsciiInMessage(d) ==
    /\ PipePos(d) > 0
    /\ \E i \in PipePos(d)..(EtxPos(d) - 1) : d[i] > 127

Malformed(d) == NoEtx(d) \/ NoPipeBeforeEtx(d) \/ NonAsciiInMessage(d)

\* C14: decoding a response with no ETX byte, with no "|" before the first
\* ETX (even when a "|" follows it), or with a non-ASCII byte between the
\* first "|" and the first ETX yields a record that holds the error
\* indicator only, never part of a measurement record; and a record that
\* decode returns holds the error indicator only when decoding failed: the
\* success shape and the error shape exclude each other.
C14_ErrorShapeExclusive ==
    Returned =>
        /\ Malformed(response) <=> "error" \in DOMAIN result
        /\ Malformed(response) => DOMAIN result = {"error"}
        /\ ~Malformed(response) =>
              /\ DOMAIN result = RecordKeys
              /\ \A k \in DOMAIN result : result[k].t \in {"none", "int", "str"}
        /\ "error" \notin RecordKeys

C14_Witness ==
    /\ Returned
    /\ NoPipeBeforeEtx(response)
    /\ \E i \in (EtxPos(response) + 1)..Len(response) : response[i] = 124
    /\ DOMAIN result = {"error"}

\* the segments of the text s, which follows a "|"
RECURSIVE SegmentsOf(_)
SegmentsOf(s) ==
    LET p == FirstPos(s, 124)
    IN  IF p = 0 THEN <<s>>
        ELSE <<SubSeq(s, 1, p - 1)>> \o SegmentsOf(SubSeq(s, p + 1, Len(s)))

\* the segments of a well-formed response: the text between the first "|"
\* and the first ETX, cut at every "|"
WireSegments(d) == SegmentsOf(SubSeq(d, PipePos(d) + 1, EtxPos(d) - 1))

\* the field names of the wire contract, in their order
WireFieldNames ==
    << "meter_dev_type", "meter_mac_code", "hhm_dev_type", "hhm_mac_code",
       "A_phase_power", "B_phase_power", "C_phase_power", "total_power",
       "A_chrg_nb", "B_chrg_nb", "C_chrg_nb", "ABC_chrg_nb", "wifi_rssi",
       "info_idx", "x_chrg_power", "A_chrg_power", "B_chrg_power",
       "C_chrg_power", "ABC_chrg_power", "x_dchrg_power", "A_dchrg_power",
       "B_dchrg_power", "C_dchrg_power", "ABC_dchrg_power" >>

\* the current call returned a success record
Decoded == Returned /\ ~Malformed(response)

\* C15: every success record has the same key set, whatever the response:
\* every name of the fixed field order and the derived battery_power; a
\* field whose position is beyond the response's segments, or whose segment
\* is empty, is present with value none, not left out.
C15_KeySetFixed ==
    Decoded =>
        LET segs == WireSegments(response)
        IN  /\ DOMAIN result =
                  {WireFieldNames[i] : i \in DOMAIN WireFieldNames} \cup {"battery_power"}
            /\ \A i \in DOMAIN WireFieldNames :
                  (i > Len(segs) \/ segs[i] = <<>>) =>
                      /\ WireFieldNames[i] \in DOMAIN result
                      /\ result[WireFieldNames[i]].t = "none"

C15_Witness ==
    /\ Decoded
    /\ Len(WireSegments(response)) = 5
    /\ WireSegments(response)[4] = <<>>
    /\ result["hhm_mac_code"].t = "none"
    /\ result["A_phase_power"].t = "int"
    /\ result["A_phase_power"].v = 100
    /\ result["ABC_dchrg_power"].t = "none"

\* the response carries exactly 5 segments, none of them empty
FiveSegments ==
    /\ Len(WireSegments(response)) = 5
    /\ \A i \in 1..5 : WireSegments(response)[i] # <<>>

\* the wire fields of a record: every key but the derived one
WireKeys(rec) == DOMAIN rec \ {"battery_power"}

\* the wire fields of a record that are none
NoneKeys(rec) == {k \in WireKeys(rec) : rec[k].t = "none"}

\* C16 as stated: the fixed field order has 23 positions; a response with
\* exactly 5 non-empty segments gives a record whose first 5 fields are
\* populated and in which exactly 18 remaining wire fields are none.
C16_AsStated ==
    (Decoded /\ FiveSegments) =>
        /\ Cardinality(WireKeys(result)) = 23
        /\ \A i \in 1..5 : result[WireFieldNames[i]].t # "none"
        /\ Cardinality(NoneKeys(result)) = 18

\* C16 (amended): the fixed field order has 24 positions; a response with
\* exactly 5 non-empty segments gives a record whose first 5 fields of the
\* fixed order are populated and in which exactly the 19 remaining wire
\* fields are present with value none.
C16_ShortResponse ==
    (Decoded /\ FiveSegments) =>
        /\ Cardinality(WireKeys(result)) = 24
        /\ \A i \in 1..5 :
              /\ result[WireFieldNames[i]].t \in {"int", "str"}
              /\ result[WireFieldNames[i]].t = "str" =>
                    result[WireFieldNames[i]].v = WireSegments(response)[i]
        /\ Cardinality(NoneKeys(result)) = 19
        /\ NoneKeys(result) = {WireFieldNames[i] : i \in 6..24}

C16_Witness ==
    /\ Decoded
    /\ FiveSegments
    /\ result["hhm_mac_code"].t = "str"
    /\ result["A_phase_power"].t = "int"
    /\ result["A_phase_power"].v = 100
    /\ result["B_phase_power"].t = "none"
    /\ result["ABC_dchrg_power"].t = "none"

\* segment i of the response, empty when the response has fewer segments
SegmentAt(d, i) ==
    IF i <= Len(WireSegments(d)) THEN WireSegments(d)[i] ELSE <<>>

\* the positions of ABC_chrg_power and ABC_dchrg_power in the field order
ChargePos == CHOOSE i \in DOMAIN WireFieldNames : WireFieldNames[i] = "ABC_chrg_power"
DischargePos == CHOOSE i \in DOMAIN WireFieldNames : WireFieldNames[i] = "ABC_dchrg_power"

\* the value x is the integer n
IsInt(x, n) == x.t = "int" /\ x.v = n

\* the value x is none
IsNone(x) == x.t = "none"

\* two values of a record are the same
SameValue(x, y) == x.t = y.t /\ (x.t = "none" \/ x.v = y.v)

\* C17: in every success record battery_power is ABC_dchrg_power minus
\* ABC_chrg_power when both fields are present and integer (120 charge and
\* 50 discharge give -70), and none whenever either of the two is none or a
\* string that is no integer; the derivation leaves the two source fields
\* as they were decoded.
C17_BatteryPower ==
    Decoded =>
        LET charge == result["ABC_chrg_power"]
            discharge == result["ABC_dchrg_power"]
        IN  /\ (charge.t = "int" /\ discharge.t = "int") =>
                  IsInt(result["battery_power"], discharge.v - charge.v)
            /\ (charge.t # "int" \/ discharge.t # "int") =>
                  IsNone(result["battery_power"])
            /\ (IsInt(charge, 120) /\ IsInt(discharge, 50)) =>
                  IsInt(result["battery_power"], 0 - 70)
            /\ SameValue(charge, FieldValue(SegmentAt(response, ChargePos)))
            /\ SameValue(discharge, FieldValue(SegmentAt(response, DischargePos)))
            /\ SegmentAt(response, ChargePos) = <<>> => IsNone(charge)
            /\ SegmentAt(response, DischargePos) = <<>> => IsNone(discharge)
            /\ SegmentAt(response, ChargePos) = <<49, 50, 48>> => IsInt(charge, 120)
            /\ SegmentAt(response, DischargePos) = <<53, 48>> => IsInt(discharge, 50)
            /\ SegmentAt(response, ChargePos) = <<97, 98, 99>> =>
                  (charge.t = "str" /\ charge.v = <<97, 98, 99>>)

C17_Witness ==
    /\ Decoded
    /\ IsInt(result["ABC_chrg_power"], 120)
    /\ IsInt(result["ABC_dchrg_power"], 50)
    /\ IsInt(result["battery_power"], 0 - 70)

\* the number a string of decimal digits denotes
RECURSIVE Dec(_)
Dec(s) == IF s = <<>> THEN 0 ELSE 10 * Dec(SubSeq(s, 1, Len(s) - 1)) + (s[Len(s)] - 48)

\* s without a leading "+" or "-"
Magnitude(s) == IF s # <<>> /\ s[1] \in {43, 45} THEN SubSeq(s, 2, Len(s)) ELSE s

\* s with the sign of its leading "-" applied to n
Signed(s, n) == IF s # <<>> /\ s[1] = 45 THEN 0 - n ELSE n

\* an optional sign followed by decimal digits
SignDigits(s) ==
    /\ Magnitude(s) # <<>>
    /\ \A i \in 1..Len(Magnitude(s)) : Magnitude(s)[i] \in 48..57

\* TAB, LF, VT, FF, CR and space
Blank(c) == c \in 9..13 \/ c = 32

\* s without the blanks at its two ends
Trimmed(s) ==
    LET inked == {i \in 1..Len(s) : ~Blank(s[i])}
    IN  IF inked = {} THEN <<>>
        ELSE SubSeq(s, CHOOSE i \in inked : \A j \in inked : i <= j,
                       CHOOSE i \in inked : \A j \in inked : j <= i)

\* s without its "_" characters
NoUnderscores(s) == SelectSeq(s, LAMBDA c : c # 95)

\* an integer literal: between blanks, an optional sign and decimal
\* digits, which single "_" characters may separate
IntLiteral(s) ==
    LET m == Magnitude(Trimmed(s))
    IN  /\ m # <<>>
        /\ m[1] \in 48..57
        /\ m[Len(m)] \in 48..57
        /\ \A i \in 1..Len(m) : m[i] \in 48..57 \/ m[i] = 95
        /\ \A i \in 1..(Len(m) - 1) : m[i] # 95 \/ m[i + 1] # 95

\* the integer it denotes
LiteralValue(s) == Signed(Trimmed(s), Dec(NoUnderscores(Magnitude(Trimmed(s)))))

\* the value v is the string s
IsStr(v, s) == v.t = "str" /\ v.v = s

\* C18 as stated: decoding reproduces the segments in their order, for
\* every position, under this rule: an empty segment becomes none, an
\* optional sign followed by decimal digits becomes that integer, and every
\* other non-empty segment is kept unchanged as a string.
C18_AsStated ==
    Decoded =>
        \A i \in DOMAIN WireFieldNames :
            i <= Len(WireSegments(response)) =>
                LET seg == WireSegments(response)[i]
                    v == result[WireFieldNames[i]]
                IN  IF seg = <<>> THEN IsNone(v)
                    ELSE IF SignDigits(seg) THEN IsInt(v, Signed(seg, Dec(Magnitude(seg))))
                    ELSE IsStr(v, seg)

\* C18 (amended): decoding reproduces the segments in their order, for
\* every position of the field order, under this rule: an empty segment
\* becomes none; a segment that, between optional blanks (TAB, LF, VT, FF,
\* CR, space), is an optional sign followed by decimal digits, with single
\* underscores allowed between digits, becomes that integer; and every
\* other non-empty segment is kept unchanged as a string.
C18_RoundTrip ==
    Decoded =>
        \A i \in DOMAIN WireFieldNames :
            i <= Len(WireSegments(response)) =>
                LET seg == WireSegments(response)[i]
                    v == result[WireFieldNames[i]]
                IN  IF seg = <<>> THEN IsNone(v)
                    ELSE IF IntLiteral(seg) THEN IsInt(v, LiteralValue(seg))
                    ELSE IsStr(v, seg)

C18_Witness ==
    /\ Decoded
    /\ Len(WireSegments(response)) = 24
    /\ WireSegments(response)[24] = <<52, 95, 50>>
    /\ IsInt(result["ABC_dchrg_power"], 42)
    /\ IsInt(result["wifi_rssi"], 0 - 55)
    /\ IsStr(result["meter_dev_type"], <<72, 77, 69, 45, 52>>)

\* two records returned by decode are the same
SameRecord(a, b) ==
    /\ DOMAIN a = DOMAIN b
    /\ \A k \in DOMAIN a :
          IF k = "error" THEN a[k] = b[k] ELSE SameValue(a[k], b[k])

\* other headers (without "|" and ETX) and trailers (of any bytes) for a
\* response: none at all, and SOH, NUL and non-ASCII bytes before, ETX, "|",
\* digits and non-ASCII bytes after
OtherFramings ==
    { << <<>>, <<>> >>,
      << <<0, 255, 1, 50>>, <<3, 124, 57, 57, 124, 200, 3, 124>> >> }

\* the response d with its bytes from the first "|" up to the first ETX in
\* another framing
Reframed(d, framing) ==
    framing[1] \o SubSeq(d, PipePos(d), EtxPos(d) - 1) \o <<3>> \o framing[2]

\* C19: the decode result depends only on the bytes from the first "|" up
\* to the first ETX: a response with the same bytes there gives the same
\* record, whatever header bytes precede the first "|" and whatever
\* trailer bytes (checksum or others, further ETX or "|" bytes included)
\* follow the first ETX.
C19_FramingIgnored ==
    (Returned /\ PipePos(response) > 0) =>
        \A framing \in OtherFramings :
            /\ PipePos(Reframed(response, framing)) = Len(framing[1]) + 1
            /\ SameRecord(DecodeResponse(Reframed(response, framing)), result)

C19_Witness ==
    /\ Decoded
    /\ response[1] = 200
    /\ \E i \in (EtxPos(response) + 1)..Len(response) : response[i] = 3
    /\ \E i \in (EtxPos(response) + 1)..Len(response) : response[i] = 124
    /\ Len(WireSegments(response)) = 24
    /\ IsInt(result["battery_power"], 0 - 70)

---------------------------------------------------------------------------
(* Properties of the polling wrapper.                                      *)

\* the interval that goes with f consecutive failures, in milliseconds:
\* 5 s for f = 0 and min(5 * 2^(f-1), 60) s for f >= 1
IntervalFor(f) ==
    IF f = 0 THEN 5000
    ELSE IF 5000 * (2 ^ (f - 1)) < 60000 THEN 5000 * (2 ^ (f - 1)) ELSE 60000

\* an async_update_data call returns in this step
PollReturns == poll = "awaiting" /\ poll' = "ready"

\* the interval follows the failure count, within 5 s and 60 s, and is 5 s
\* after a successful poll
C20_Inv ==
    (poll # "setup") =>
        /\ consecutive_failures \in 0..polls
        /\ coordinator.update_interval = IntervalFor(consecutive_failures)
        /\ coordinator.update_interval >= 5000
        /\ coordinator.update_interval <= 60000
        /\ (poll = "ready" /\ polls > 0 /\ "error" \notin DOMAIN update_result) =>
              /\ consecutive_failures = 0
              /\ coordinator.update_interval = 5000

\* the count moves only when a poll returns: up by one on an error record
\* or an outer timeout, to zero on a success record
C20_Step ==
    /\ PollReturns =>
          /\ pc = "done" => update_result' = result
          /\ pc # "done" => "error" \in DOMAIN update_result'
          /\ IF "error" \in DOMAIN update_result'
             THEN consecutive_failures' = consecutive_failures + 1
             ELSE consecutive_failures' = 0
    /\ (~PollReturns /\ poll # "setup") =>
          /\ consecutive_failures' = consecutive_failures
          /\ coordinator' = coordinator
          /\ update_result' = update_result

\* C20: under async_update_data, after any sequence of poll outcomes
\* (success record, error record, outer timeout) the coordinator's update
\* interval is a function of the consecutive-failure count f alone: 5 s when
\* f = 0 and min(5 * 2^(f-1), 60) s when f >= 1; f goes up by exactly 1 on
\* every error record or outer timeout and back to 0 on any success, so the
\* interval always lies in [5 s, 60 s] and is 5 s right after every
\* successful poll.
C20_BackoffInterval == []C20_Inv /\ [][C20_Step]_vars

C20_Witness ==
    /\ poll = "ready"
    /\ polls = 5
    /\ consecutive_failures = 5
    /\ coordinator.update_interval = 60000
    /\ update_result = [error |-> "Timeout while communicating with API: "]

---------------------------------------------------------------------------
(* C21: the client that validates and the client that polls.               *)

\* the polling client of the created entry has built its frame
PollingClientBuilt == flow = "setup" /\ pc = "idle"

\* C21 as stated: for every form the setup flow accepts, the query frame of
\* the client that validated the connection and the query frame of the
\* polling client built from the stored entry data are the same bytes
C21_AsStated == PollingClientBuilt => self.payload = validated

\* the form gave the battery address as "AABBCCDDEEFF": the validated frame
\* carries "aa:bb:cc:dd:ee:ff" and the polling client's frame carries the
\* address as the form gave it
C21_Witness ==
    /\ PollingClientBuilt
    /\ user_input.battery_mac = BatteryMac
    /\ Contains(validated, BatteryMacLower)
    /\ Contains(self.payload, BatteryMac)
    /\ self.payload # validated

---------------------------------------------------------------------------
(* C22: fetch_data calls under the polling wrapper.                        *)

\* the outer timeout has been reported and the fetch_data that was waited
\* for has not returned
TimedOutWhileRunning == poll = "ready" /\ CutByTimeout /\ pc \in InCall

\* the three conclusions of C22: a fetch_data call lasts at most 9.6 s, the
\* wrapper reports no outer timeout while the call it started is running,
\* and it starts no call while the one before is in progress
NeverOverlaps ==
    /\ FetchClock - start_delay <= 9600
    /\ ~TimedOutWhileRunning
    /\ poll # "overlap"

\* C22 as stated: when each attempt takes at most the 3 s receive timeout
\* and each delay between attempts 0.3 s, a fetch takes at most 9.6 s and so
\* finishes before the 10 s outer timeout; the wrapper never reports an
\* outer timeout while a fetch it started is running and never starts the
\* next fetch while the one before is in progress
C22_AsStated == NeverOverlaps

\* what does hold of C22: the same when the executor starts fetch_data less
\* than 0.4 s after the wait began
C22_PromptStart == start_delay < 400 => NeverOverlaps

\* started at once, all three attempts timed out: fetch_data returned 9.6 s
\* after the wait began, which is still going on
C22_PromptWitness ==
    /\ poll = "awaiting"
    /\ pc = "done"
    /\ start_delay = 0
    /\ TimedOutAttempts = 3
    /\ FetchClock = 9600

\* started 6 s late: the outer timeout came during the second attempt, and
\* the next poll, 5 s after it, during the third
C22_Witness ==
    /\ poll = "overlap"
    /\ start_delay = 6000
    /\ pc = "recvfrom"
    /\ attempt = 3

===========================================================================
